---- MODULE Spec2Model ----
(***************************************************************************)
(* BFASTPython (bfast/python/base_nans.py): fit and fit_single.            *)
(*                                                                         *)
(* A run is one call of fit on a cube of shape (N, 1, 1), i.e. one pixel   *)
(* series of length N.  Arrays are sequences; numpy's 0-based index i of   *)
(* an array a is read with At(a, i).  Index VALUES (index map entries,     *)
(* breakpoints) keep numpy's 0-based numbering, so that the zero padding   *)
(* of the breakpoint arrays and a breakpoint at index 0 stay distinct      *)
(* notions.  Floats are small integers; p-values are in hundredths.        *)
(*                                                                         *)
(* Vt and Wt (lines 204, 247) only feed the collaborators (EFP,            *)
(* Breakpoints, OLS), whose outcomes are drawn from small sets.            *)
(***************************************************************************)
EXTENDS Integers, Sequences, FiniteSets, TLC

\* ---------------------------------------------------------------- bounds
N == 3
MaxIter == 3
MaxBreaks == 1

\* ------------------------------------------------------ program constants
level == 5
frequency == 2
NaN == -1000

PValues == {1, 10}
FitCoefs == {0, 1}
SeasonTypes == {"dummy", "harmonic", "none", "bogus"}

None == <<>>
Unbound == <<NaN - 1>>

\* ------------------------------------------------------------ array helpers
At(a, i) == a[i + 1]

InRange(a, idx) == \A k \in 1..Len(idx) : idx[k] >= 0 /\ idx[k] < Len(a)

Take(a, idx) == [k \in 1..Len(idx) |-> At(a, idx[k])]

Zeros(n) == [k \in 1..n |-> 0]

RECURSIVE SortedSeq(_)
SortedSeq(S) ==
    IF S = {} THEN <<>>
    ELSE LET m == CHOOSE x \in S : \A y \in S : x <= y
         IN  <<m>> \o SortedSeq(S \ {m})

\* ------------------------------------------------------------ collaborators
create_nan_map(x) ==
    SelectSeq([i \in 1..Len(x) |-> i - 1], LAMBDA i : At(x, i) # NaN)

different(a, b) == a # b

STLSeasonal(n) == {[k \in 1..n |-> c * k] : c \in FitCoefs}

BreakpointSets(nrow) ==
    {SortedSeq(S) : S \in {T \in SUBSET (1..(nrow - 1)) : Cardinality(T) <= MaxBreaks}}

OLSPredict(nrow) == {[k \in 1..nrow |-> c * k] : c \in FitCoefs}

\* ------------------------------------------------------------------- state
VARIABLES
    pc, err, season_type, max_iter, smod_n, assigned, invoked,
    Yt_n, nan_map, Yt, St, smod,
    Vt_bp, Wt_bp, bp_Wt, CheckTimeTt, CheckTimeSt, i_iter,
    Tt, Nt,
    Tt_n, St_n, Nt_n, Vt_bp_arr, Wt_bp_arr, n_Vt_bp, n_Wt_bp

config == <<season_type, max_iter, Yt_n>>
locals == <<nan_map, Yt, St, smod, Vt_bp, Wt_bp, bp_Wt, CheckTimeTt, CheckTimeSt,
            i_iter, Tt, Nt>>
outputs == <<Tt_n, St_n, Nt_n, Vt_bp_arr, Wt_bp_arr, n_Vt_bp, n_Wt_bp>>
vars == <<pc, err, smod_n, assigned, invoked, config, locals, outputs>>

\* the observations: a ramp (the value at numpy index i is i + 1) with any
\* pattern of missing values
Series == {[i \in 1..N |-> IF i \in M THEN NaN ELSE i] : M \in SUBSET (1..N)}

Init ==
    /\ pc = "new"
    /\ err = "none"
    /\ season_type \in SeasonTypes
    /\ max_iter \in 1..MaxIter
    /\ Yt_n \in Series
    /\ smod_n = None
    /\ assigned = FALSE
    /\ invoked = {}
    /\ nan_map = <<>> /\ Yt = <<>> /\ St = Unbound /\ smod = None
    /\ Vt_bp = <<>> /\ Wt_bp = <<>> /\ bp_Wt = <<>>
    /\ CheckTimeTt = <<>> /\ CheckTimeSt = <<>> /\ i_iter = 0
    /\ Tt = Unbound /\ Nt = Unbound
    /\ Tt_n = <<>> /\ St_n = <<>> /\ Nt_n = <<>>
    /\ Vt_bp_arr = <<>> /\ Wt_bp_arr = <<>> /\ n_Vt_bp = 0 /\ n_Wt_bp = 0

Raise(e) ==
    /\ pc' = "raised"
    /\ err' = e

\* ------------------------------------------------- build_seasonal_model
\* variant: the final else of the if/elif chain (line 336) is missing
KnownSeasonTypeAny(t) == TRUE

\* lines 310, 322, 332, 336
KnownSeasonType(t) == t \in {"harmonic", "dummy", "none"}

build_seasonal_model(t, nrow) ==
    IF t = "harmonic" THEN <<nrow, 6>>
    ELSE IF t = "dummy" THEN <<nrow, frequency>>
    ELSE None

\* fit, line 98: the seasonal model is built before any pixel is processed
FitBuild ==
    /\ pc = "new"
    /\ IF KnownSeasonType(season_type)
       THEN /\ smod_n' = build_seasonal_model(season_type, N)
            /\ pc' = "pixel"
            /\ err' = err
       ELSE /\ Raise("ValueError")
            /\ smod_n' = smod_n
    /\ UNCHANGED <<assigned, invoked, config, locals, outputs>>

\* ------------------------------------------------------------ fit_single
Failure == <<NaN - 2>>

SearchOutcomes(nrow) == BreakpointSets(nrow) \cup {Failure}

FitOutcomes(nrow) == OLSPredict(nrow) \cup {Failure}

Remainder(Y, T, S) == [k \in 1..Len(Y) |-> Y[k] - T[k] - S[k]]

\* variant: the fitted values are written left-aligned, a[:len(v)] = v
RemapLeftAligned(map, v, n) == [i \in 1..n |-> IF i <= Len(v) THEN v[i] ELSE NaN]

\* lines 286-292: a[nan_map] = v on a copy of an all-NaN array of length n
Remap(map, v, n) ==
    [i \in 1..n |->
        IF \E k \in 1..Len(map) : map[k] = i - 1
        THEN v[CHOOSE k \in 1..Len(map) : map[k] = i - 1]
        ELSE NaN]

\* variant: the unused slots are filled with -1 instead of 0
PadMinusOne(bp, n) == [i \in 1..n |-> IF i <= Len(bp) THEN bp[i] ELSE 0 - 1]

\* lines 299-302: arr = zeros(n); arr[:len(bp)] = bp
Pad(bp, n) == [i \in 1..n |-> IF i <= Len(bp) THEN bp[i] ELSE 0]

\* variant: the season_type test of line 243 never takes the "none" branch
SkipSeasonNever(t) == FALSE

\* line 243
SkipSeason(t) == t = "none"

\* variant: the remainder is computed from the seasonal estimate the iteration
\* started with
SeasonForRemainderStale(newSt) == St

\* line 282 reads the St assigned earlier in the same iteration
SeasonForRemainder(newSt) == newSt

\* line 197
LoopCond ==
    /\ different(Vt_bp, CheckTimeTt) \/ different(Vt_bp, CheckTimeTt)
    /\ i_iter < max_iter

\* lines 169-195
FitSingleStart ==
    /\ pc = "pixel"
    /\ \E stl \in STLSeasonal(N) :
         LET seasonal == season_type \in {"dummy", "harmonic"}
             s_n == IF seasonal THEN stl ELSE Zeros(N)
             map == create_nan_map(Yt_n)
         IN  /\ invoked' = invoked \cup {"fit_single"}
                              \cup (IF seasonal THEN {"STL"} ELSE {})
             /\ St_n' = s_n
             /\ nan_map' = map
             /\ St' = Take(s_n, map)
             /\ Yt' = Take(Yt_n, map)
             /\ smod' = IF smod_n # None THEN <<Len(map), smod_n[2]>> ELSE smod
    /\ Vt_bp' = <<>>
    /\ Wt_bp' = <<>>
    /\ CheckTimeTt' = <<0>>
    /\ CheckTimeSt' = <<0>>
    /\ i_iter' = 1
    /\ pc' = "loop"
    /\ UNCHANGED <<err, smod_n, assigned, config, bp_Wt, Tt, Nt,
                   Tt_n, Nt_n, Vt_bp_arr, Wt_bp_arr, n_Vt_bp, n_Wt_bp>>

\* lines 197-240: loop test, then the trend half of one iteration
TrendStep ==
    /\ pc = "loop"
    /\ LoopCond
    /\ CheckTimeTt' = Vt_bp
    /\ CheckTimeSt' = Wt_bp
    /\ \E p_Vt \in PValues, search \in SearchOutcomes(Len(Yt)), fit \in FitOutcomes(Len(Yt)) :
         LET searched == p_Vt <= level
             searchFailed == searched /\ search = Failure
             nobp_Vt == IF searched THEN Len(search) = 0 ELSE TRUE
         IN  /\ invoked' = invoked \cup {"EFP_trend"}
                              \cup (IF searched THEN {"Breakpoints_trend"} ELSE {})
                              \cup (IF searchFailed THEN {} ELSE {"OLS_trend"})
             /\ IF searchFailed \/ fit = Failure
                THEN /\ Raise("CollaboratorError")
                     /\ UNCHANGED <<Vt_bp, Tt>>
                ELSE /\ pc' = "season"
                     /\ err' = err
                     /\ Vt_bp' = IF nobp_Vt THEN <<>> ELSE search
                     /\ Tt' = fit
    /\ UNCHANGED <<smod_n, assigned, config, nan_map, Yt, St, smod, Wt_bp, bp_Wt,
                   i_iter, Nt, outputs>>

\* lines 242-283: the seasonal half of the iteration, the remainder, the counter
SeasonStep ==
    /\ pc = "season"
    /\ IF SkipSeason(season_type)
       THEN /\ St' = Zeros(Len(Yt))
            /\ Nt' = Remainder(Yt, Tt, SeasonForRemainder(St'))
            /\ i_iter' = i_iter + 1
            /\ pc' = "loop"
            /\ UNCHANGED <<err, invoked, Wt_bp, bp_Wt>>
       ELSE \E p_Wt \in PValues, search \in SearchOutcomes(Len(Yt)),
               fit \in FitOutcomes(Len(Yt)) :
              LET searched == p_Wt <= level
                  searchFailed == searched /\ search = Failure
                  nobp_Wt == IF searched THEN Len(search) = 0 ELSE TRUE
              IN  /\ invoked' = invoked \cup {"EFP_season"}
                              \cup (IF searched THEN {"Breakpoints_season"} ELSE {})
                              \cup (IF searchFailed THEN {} ELSE {"OLS_season"})
                  /\ bp_Wt' = IF searched /\ ~searchFailed THEN search ELSE bp_Wt
                  /\ IF searchFailed \/ fit = Failure
                     THEN /\ Raise("CollaboratorError")
                          /\ UNCHANGED <<St, Wt_bp, Nt, i_iter>>
                     ELSE /\ St' = fit
                          /\ Wt_bp' = IF nobp_Wt THEN <<>> ELSE Take(nan_map, search)
                          /\ Nt' = Remainder(Yt, Tt, SeasonForRemainder(St'))
                          /\ i_iter' = i_iter + 1
                          /\ pc' = "loop"
                          /\ err' = err
    /\ UNCHANGED <<smod_n, assigned, config, nan_map, Yt, smod, Vt_bp,
                   CheckTimeTt, CheckTimeSt, Tt, outputs>>

\* lines 285-304: loop exit, output remap, return
LoopExit ==
    /\ pc = "loop"
    /\ ~LoopCond
    /\ IF Tt = Unbound
       THEN /\ Raise("UnboundLocalError")
            /\ UNCHANGED outputs
       ELSE IF ~InRange(nan_map, Vt_bp) \/ ~InRange(nan_map, Wt_bp)
       THEN /\ Raise("IndexError")
            /\ UNCHANGED outputs
       ELSE /\ Tt_n' = Remap(nan_map, Tt, N)
            /\ St_n' = Remap(nan_map, St, N)
            /\ Nt_n' = Remap(nan_map, Nt, N)
            /\ Vt_bp_arr' = Pad(Take(nan_map, Vt_bp), N)
            /\ Wt_bp_arr' = Pad(Take(nan_map, Wt_bp), N)
            /\ n_Vt_bp' = Len(Vt_bp)
            /\ n_Wt_bp' = Len(Wt_bp)
            /\ pc' = "returned"
            /\ err' = err
    /\ UNCHANGED <<smod_n, assigned, invoked, config, locals>>

\* fit, lines 121-137: the pixel's results are stored and the attributes assigned
FitAssign ==
    /\ pc = "returned"
    /\ assigned' = TRUE
    /\ pc' = "done"
    /\ UNCHANGED <<err, smod_n, invoked, config, locals, outputs>>

Next ==
    \/ FitBuild
    \/ FitSingleStart
    \/ TrendStep
    \/ SeasonStep
    \/ LoopExit
    \/ FitAssign

Spec == Init /\ [][Next]_vars

\* ================================================================ claims
Returned == pc \in {"returned", "done"}

\* the loop was left through its test (line 197), not through a failing collaborator
LoopLeft == Returned \/ (pc = "raised" /\ err \in {"UnboundLocalError", "IndexError"})

Missing(i) == At(Yt_n, i) = NaN

AllMissing == \A i \in 0..(N - 1) : Missing(i)

\* the number of non-missing observations at numpy indices 0..i
Rank(i) == Cardinality({j \in 0..i : ~Missing(j)})

\* C1 (as claimed): fit_single never indexes outside the index map, and on return
\* the k-th reported trend (seasonal) breakpoint is the index map's entry at the
\* k-th compacted breakpoint the search returned in the final iteration.
C1_TranslatedOnce ==
    /\ err # "IndexError"
    /\ Returned =>
         /\ \A k \in 1..n_Vt_bp : Vt_bp_arr[k] = At(nan_map, Vt_bp[k])
         /\ \A k \in 1..n_Wt_bp : Wt_bp_arr[k] = At(nan_map, bp_Wt[k])

\* C2: on every return the two breakpoint counts are at most N, the two
\* breakpoint arrays have length N, and every slot at an index >= the count is 0.
C2_ZeroPadding ==
    Returned =>
        /\ n_Vt_bp <= N /\ n_Wt_bp <= N
        /\ Len(Vt_bp_arr) = N /\ Len(Wt_bp_arr) = N
        /\ \A i \in 0..(N - 1) :
             /\ i >= n_Vt_bp => At(Vt_bp_arr, i) = 0
             /\ i >= n_Wt_bp => At(Wt_bp_arr, i) = 0

\* C2 witness: a return with trend and seasonal breakpoints and unused slots
C2_Witness ==
    /\ pc = "returned"
    /\ n_Vt_bp > 0 /\ n_Wt_bp > 0
    /\ n_Vt_bp < N /\ n_Wt_bp < N

\* C3 (as claimed): with season_type "none" the seasonal breakpoint set stays
\* empty, no seasonal gate test or search is invoked, and on return the Season
\* output is zero in every slot and the seasonal count is zero.
C3_SeasonUniformlyZero ==
    season_type = "none" =>
        /\ Wt_bp = <<>>
        /\ invoked \cap {"EFP_season", "Breakpoints_season"} = {}
        /\ Returned => (St_n = Zeros(N) /\ n_Wt_bp = 0)

\* C3 (amended): with season_type "none" the seasonal breakpoint set stays empty,
\* no seasonal gate test or search is invoked, the compacted seasonal estimate is
\* zero after every iteration, and on return the Season output is zero at every
\* non-missing position, the missing sentinel at every missing position, and the
\* seasonal count is zero.
C3_SeasonZeroWhereObserved ==
    season_type = "none" =>
        /\ Wt_bp = <<>>
        /\ invoked \cap {"EFP_season", "Breakpoints_season"} = {}
        /\ (pc = "loop" /\ i_iter > 1) => St = Zeros(Len(Yt))
        /\ Returned =>
             /\ n_Wt_bp = 0
             /\ Wt_bp_arr = Zeros(N)
             /\ Len(St_n) = N
             /\ \A i \in 0..(N - 1) :
                  At(St_n, i) = IF Missing(i) THEN NaN ELSE 0

\* C3 witness: a return with season_type "none" on a series that has both
\* missing and non-missing observations, after two iterations
C3_Witness ==
    /\ pc = "returned"
    /\ season_type = "none"
    /\ i_iter = 3
    /\ \E i, j \in 0..(N - 1) : Missing(i) /\ ~Missing(j)

\* C4 (as claimed): on an all-missing series fit_single raises nothing, invokes
\* neither the structural-change test nor the breakpoint search nor the
\* regression, and returns all-missing Trend, Season and Remainder with zero
\* breakpoint counts.
C4_AllMissingDegenerate ==
    (AllMissing /\ "fit_single" \in invoked) =>
        /\ err = "none"
        /\ invoked \subseteq {"fit_single", "STL"}
        /\ Returned =>
             /\ Tt_n = [i \in 1..N |-> NaN]
             /\ St_n = [i \in 1..N |-> NaN]
             /\ Nt_n = [i \in 1..N |-> NaN]
             /\ n_Vt_bp = 0 /\ n_Wt_bp = 0

\* C5: on every return Trend, Season and Remainder have length N, hold the
\* missing sentinel exactly at the missing positions, and at the k-th
\* non-missing position hold the k-th element of the compacted vector.
C5_RoundTrip ==
    Returned =>
        /\ Len(Tt_n) = N /\ Len(St_n) = N /\ Len(Nt_n) = N
        /\ \A i \in 0..(N - 1) :
             IF Missing(i)
             THEN At(Tt_n, i) = NaN /\ At(St_n, i) = NaN /\ At(Nt_n, i) = NaN
             ELSE /\ At(Tt_n, i) = Tt[Rank(i)] /\ At(Tt_n, i) # NaN
                  /\ At(St_n, i) = St[Rank(i)] /\ At(St_n, i) # NaN
                  /\ At(Nt_n, i) = Nt[Rank(i)] /\ At(Nt_n, i) # NaN

\* C5 witness: a return on a series with a gap between two observations, with a
\* trend whose compacted values differ from position to position
C5_Witness ==
    /\ pc = "returned"
    /\ ~Missing(0) /\ Missing(1) /\ ~Missing(2)
    /\ Tt[1] # Tt[2]

\* C6: with an unknown season_type fit raises ValueError before fit_single is
\* invoked and never assigns the result attributes.
C6_InvalidSeasonType ==
    ~(season_type \in {"dummy", "harmonic", "none"}) =>
        /\ pc \in {"new", "raised"}
        /\ pc = "raised" => err = "ValueError"
        /\ ~("fit_single" \in invoked)
        /\ ~assigned

\* C6 witness: fit has raised the configuration error
C6_Witness ==
    /\ season_type = "bogus"
    /\ pc = "raised"
    /\ err = "ValueError"

\* C7 (as claimed): the loop body runs at most max_iter times, and when the loop
\* is left at the iteration bound with breakpoint sets that still differ from
\* those of the start of the last iteration, fit_single raises nothing and
\* returns the remapped estimates of the last executed iteration.
C7_BoundedWithoutError ==
    /\ i_iter >= 1 => i_iter - 1 <= max_iter
    /\ ( /\ pc \in {"returned", "done", "raised"}
         /\ i_iter >= 1
         /\ i_iter >= max_iter
         /\ different(Vt_bp, CheckTimeTt) \/ different(Wt_bp, CheckTimeSt) )
       => /\ err = "none"
          /\ i_iter > 1
          /\ Tt_n = Remap(nan_map, Tt, N)
          /\ St_n = Remap(nan_map, St, N)
          /\ Nt_n = Remap(nan_map, Nt, N)

\* C8 (as claimed): the loop is left before the iteration bound only when both
\* the trend and the seasonal breakpoint sets equal their values at the start of
\* the last iteration.
C8_ConvergedOnlyWhenBothStable ==
    (LoopLeft /\ i_iter < max_iter) =>
        /\ ~different(Vt_bp, CheckTimeTt)
        /\ ~different(Wt_bp, CheckTimeSt)

\* C9 (as claimed): for every max_iter >= 1 the loop body has run at least once
\* when the loop is left, so Trend and Remainder are bound when the output remap
\* reads them.
C9_FirstIterationRuns ==
    LoopLeft =>
        /\ i_iter > 1
        /\ Tt # Unbound /\ Nt # Unbound
        /\ err # "UnboundLocalError"

\* C10: at the end of every iteration Remainder = observations - Trend - Season
\* over the compacted space, with the Trend and Season of that iteration, and on
\* return the same holds of the outputs at every non-missing position.
C10_Remainder ==
    /\ (pc = "loop" /\ i_iter > 1) =>
         /\ Len(Nt) = Len(Yt)
         /\ \A k \in 1..Len(Yt) : Nt[k] = Yt[k] - Tt[k] - St[k]
    /\ Returned =>
         \A i \in 0..(N - 1) :
            ~Missing(i) =>
                At(Nt_n, i) = At(Yt_n, i) - At(Tt_n, i) - At(St_n, i)

\* C10 witness: a return after two iterations with a non-zero Trend and a
\* non-zero Season at an observed position
C10_Witness ==
    /\ pc = "returned"
    /\ i_iter = 3
    /\ \E i \in 0..(N - 1) : ~Missing(i) /\ At(St_n, i) # 0 /\ At(Tt_n, i) # 0
====
